---- MODULE Spec2Model ----
(***************************************************************************)
(* env_monitor: the DHT11 single-wire decoder (src/src/sensors/dht11.rs)   *)
(* and the flame monitor with its buzzer (src/src/sensors/fire.rs).        *)
(*                                                                         *)
(* Times are microseconds.  The two drivers share no state; SpecDht runs   *)
(* one Dht11Sensor::read exchange against a sensor waveform, SpecFire runs *)
(* the FireSensor operations and the spawned monitor tasks.                *)
(***************************************************************************)
EXTENDS Integers, Sequences, FiniteSets, TLC

VARIABLES
    \* ---- Dht11Sensor::read_internal ----
    dpc,              \* position in read_internal
    overflow_checks,  \* build profile: TRUE = arithmetic overflow panics (debug)
    pinMode,          \* "None" | "Output" | "Input"
    pinOut,           \* level last written by the decoder: "None" | "Low" | "High"
    now,              \* the monotonic clock (Instant::now), microseconds
    timeout,          \* the deadline Instant (-1 before it is set)
    start,            \* Instant taken before the high measurement
    duration,         \* last start.elapsed()
    data,             \* [u8; 5]
    bi,               \* index of the byte being filled, 0..4
    j,                \* bit index inside the byte, 0..7
    lastBit,          \* the bit the last measurement decoded
    still,            \* last pin sample: TRUE = line still at the waited-on level
    result,           \* what read_internal returns
    ret,              \* what the caller of read / read_async gets back
    bits,             \* the data bits decoded so far, in arrival order
    trace,            \* the steps of the start signal and handshake taken so far
    failedPhase,      \* the wait loop whose deadline test fired ("" = none)
    lowAt,            \* Instant at which the line was driven low
    lowHeld,          \* how long the line had been low when it was driven high
    \* ---- the sensor on the line (environment) ----
    frame,            \* the five bytes the sensor sends
    pulse,            \* high-pulse width of the current bit
    rem,              \* time left until the awaited edge
    stayed,           \* the current wait already sampled the old level once
    \* ---- FireSensor ----
    is_active,        \* Arc<Mutex<bool>>: the continue-flag
    high_active,      \* polarity fixed at construction
    tpc,              \* position of each spawned monitor task
    cycle,            \* per task: completed cycles of the running burst
    burstMicros,      \* per task: time requested with the buzzer active / off in that burst
    flame_detected,   \* per task: the loop's local of that name
    flameHeld,        \* task holding the flame Pin (0 = free)
    buzzerHeld,       \* task holding the buzzer Pin (0 = free)
    buzzer,           \* level last driven on the buzzer line: "None" | "High" | "Low"
    startRet,         \* per task: what the start_monitoring call that spawned it returned
    stoppedAtSpawn,   \* per task: the flag was already false when it was spawned
    lastRead,         \* the last single-shot read: operation, line level, result
    gets,             \* per task: gpio.get calls made
    getFailed,        \* per task: one of its gpio.get calls failed
    sampled,          \* per task: it has read the flame line
    drove,            \* per task: it has written the buzzer line
    burstAtStop,      \* a burst was in progress when the flag was first written false
    readsAfterStop,   \* flame reads by the loop after the flag became false
    burstsAfterStop,  \* bursts started after the flag became false
    sleepsAfterStop   \* interval sleeps finished after the flag became false

dhtVars == <<dpc, overflow_checks, pinMode, pinOut, now, timeout, start, duration,
             data, bi, j, lastBit, still, result, frame, pulse, rem, stayed,
             ret, bits, trace, failedPhase, lowAt, lowHeld>>

fireVars == <<is_active, high_active, tpc, cycle, burstMicros, flame_detected, flameHeld,
              buzzerHeld, buzzer, startRet, stoppedAtSpawn, lastRead, gets, getFailed,
              sampled, drove, burstAtStop, readsAfterStop, burstsAfterStop, sleepsAfterStop>>

vars == <<dhtVars, fireVars>>

----------------------------------------------------------------------------
\* Program constants of dht11.rs
START_LOW_MS == 20
TIMEOUT_MS == 100
BIT_THRESHOLD_US == 40
NBYTES == 5
NBITS == 8

\* The sensor's waveform (environment): widths the decoder can measure.
RESPONSE_DELAY == 30
RESPONSE_PULSE == 80
BIT_SLOT == 120
STAY_TICK == 10
OVERSLEEP == 500
SensorPulse(b) == IF b = 1 THEN {41, 70} ELSE {27, 40}
StallJump == TIMEOUT_MS * 1000

\* Frames the sensor sends: the documented exchange, the same with a corrupted
\* checksum, and frames whose four-byte sum passes 255.
Frames ==
    { <<50, 0, 28, 0, 78>>, <<50, 0, 28, 0, 79>>,
      <<128, 0, 128, 0, 0>>, <<128, 0, 128, 0, 1>>,
      <<200, 55, 1, 3, 3>> }

Pow2(n) == IF n = 0 THEN 1 ELSE IF n = 1 THEN 2 ELSE IF n = 2 THEN 4
           ELSE IF n = 3 THEN 8 ELSE IF n = 4 THEN 16 ELSE IF n = 5 THEN 32
           ELSE IF n = 6 THEN 64 ELSE 128

\* bit k (0..39) of a frame as the sensor sends it, most significant bit first
FrameBit(f, k) == (f[(k \div NBITS) + 1] \div Pow2(7 - (k % NBITS))) % 2

----------------------------------------------------------------------------
\* Results of read
NoResult == [kind |-> "None", temperature |-> 0, humidity |-> 0, msg |-> ""]
OkReading(t, h) == [kind |-> "Ok", temperature |-> t, humidity |-> h, msg |-> ""]
ErrTimeout(m) == [kind |-> "Timeout", temperature |-> 0, humidity |-> 0, msg |-> m]
ErrDataValidation(m) ==
    [kind |-> "DataValidation", temperature |-> 0, humidity |-> 0, msg |-> m]
ErrGpio == [kind |-> "GpioError", temperature |-> 0, humidity |-> 0, msg |-> ""]
Panicked(m) == [kind |-> "Panic", temperature |-> 0, humidity |-> 0, msg |-> m]

ErrSensor(m) == [kind |-> "SensorError", temperature |-> 0, humidity |-> 0, msg |-> m]

\* nothing returned yet
NoReturn == [call |-> "none", value |-> NoResult]

\* Dht11Sensor::read: self.read_internal(), a panic unwinds into the caller
SyncReturn(r) == [call |-> "read", value |-> r]

\* faulty variant: a failed join is reported as a timeout of the exchange
AsyncReturnJoinAsTimeout(r, ran) ==
    [call |-> "read_async",
     value |-> IF ran /\ r.kind # "Panic" THEN r ELSE ErrTimeout("Task join error")]

\* Dht11Sensor::read_async: spawn_blocking(move || Dht11Sensor::new(pin).read())
\*     .await.map_err(|e| SensorError::SensorError(format!("Task join error: {}", e)))?
\* ran: the worker ran the closure to its end.  Its result is passed on when
\* the join succeeds; a worker that panicked or never ran makes the join fail.
AsyncReturn(r, ran) ==
    [call |-> "read_async",
     value |-> IF ran /\ r.kind # "Panic" THEN r ELSE ErrSensor("Task join error")]

\* faulty variant: the hold is requested in microseconds
HoldMicrosAsMicros == START_LOW_MS

\* Duration::from_millis(20)
HoldMicros == START_LOW_MS * 1000

\* the first pin.read() of the exchange is noted in the trace
Sampled(tr) ==
    IF \E i \in 1..Len(tr) : tr[i] = "sample" THEN tr ELSE Append(tr, "sample")

\* The wait loops of read_internal, in program order
WaitPhases == {"waitResponse", "waitRespLow", "waitReady", "bitLow", "bitHigh"}

\* the level each loop keeps spinning on
WaitedLevel(p) == IF p \in {"waitRespLow", "bitLow"} THEN "Low" ELSE "High"

\* faulty variant: both data-bit loops report the same text
TimeoutMsgShared(p) ==
    CASE p = "waitResponse" -> "Waiting for DHT11 response timed out"
      [] p = "waitRespLow" -> "DHT11 response signal timed out"
      [] p = "waitReady" -> "DHT11 ready signal timed out"
      [] p = "bitLow" -> "Timed out while reading data bit"
      [] p = "bitHigh" -> "Timed out while reading data bit"

TimeoutMsg(p) ==
    CASE p = "waitResponse" -> "Waiting for DHT11 response timed out"
      [] p = "waitRespLow" -> "DHT11 response signal timed out"
      [] p = "waitReady" -> "DHT11 ready signal timed out"
      [] p = "bitLow" -> "Timed out while reading data bit"
      [] p = "bitHigh" -> "Timed out during high level data bit reading"

\* faulty variant: the deadline test is missing from the two data-bit loops
TimedOutHandshakeOnly(p, t, deadline) ==
    p \notin {"bitLow", "bitHigh"} /\ t > deadline

\* if Instant::now() > timeout
TimedOut(p, t, deadline) == t > deadline

\* faulty variant: the threshold itself already counts as a long pulse
DecodeBitInclusive(d) == IF d >= BIT_THRESHOLD_US THEN 1 ELSE 0

\* if duration > Duration::from_micros(40)
DecodeBit(d) == IF d > BIT_THRESHOLD_US THEN 1 ELSE 0

\* faulty variant: the bits are packed least significant bit first
OrBitLsbFirst(byte, jj) ==
    IF (byte \div Pow2(jj)) % 2 = 1 THEN byte ELSE byte + Pow2(jj)

\* *byte |= 1 << (7 - j)
OrBit(byte, jj) ==
    IF (byte \div Pow2(7 - jj)) % 2 = 1 THEN byte ELSE byte + Pow2(7 - jj)

\* u8 + u8: the wrapped sum, and whether the addition overflowed
AddU8(a, b) == [val |-> (a + b) % 256, ovf |-> a + b > 255]

\* data[0] + data[1] + data[2] + data[3], left to right in u8
ChecksumSum(d) ==
    LET s1 == AddU8(d[1], d[2])
        s2 == AddU8(s1.val, d[3])
        s3 == AddU8(s2.val, d[4])
    IN [val |-> s3.val, ovf |-> s1.ovf \/ s2.ovf \/ s3.ovf]

\* data[i] as f32: every u8 is exactly representable, the value is kept
AsF32(b) == b

\* lines 111-123: checksum test and construction of the reading
Verify(d, checks) ==
    LET s == ChecksumSum(d) IN
    IF s.ovf /\ checks THEN Panicked("attempt to add with overflow")
    ELSE IF d[5] # s.val THEN ErrDataValidation("Checksum error")
    ELSE OkReading(AsF32(d[3]), AsF32(d[1]))

----------------------------------------------------------------------------
DhtInit ==
    /\ dpc = "idle"
    /\ overflow_checks \in BOOLEAN
    /\ pinMode = "None"
    /\ pinOut = "None"
    /\ now = 0
    /\ timeout = -1
    /\ start = 0
    /\ duration = 0
    /\ data = <<0, 0, 0, 0, 0>>
    /\ bi = 0
    /\ j = 0
    /\ lastBit = 0
    /\ still = FALSE
    /\ result = NoResult
    /\ frame \in Frames
    /\ pulse = 0
    /\ rem = 0
    /\ stayed = FALSE
    /\ ret = NoReturn
    /\ bits = <<>>
    /\ trace = <<>>
    /\ failedPhase = ""
    /\ lowAt = 0
    /\ lowHeld = 0

\* Gpio::new()? ; gpio.get(pin)?.into_io(Mode::Output)
DhtAcquire ==
    /\ dpc = "idle"
    /\ \E ok \in BOOLEAN :
         IF ok THEN /\ pinMode' = "Output"
                    /\ dpc' = "writeLow"
                    /\ UNCHANGED result
               ELSE /\ result' = ErrGpio
                    /\ dpc' = "done"
                    /\ UNCHANGED pinMode
    /\ UNCHANGED <<overflow_checks, pinOut, now, timeout, start, duration, data, bi,
                   j, lastBit, still, frame, pulse, rem, stayed>>
    /\ ret = NoReturn
    /\ UNCHANGED <<ret, bits, trace, failedPhase, lowAt, lowHeld>>
    /\ UNCHANGED fireVars

\* pin.write(Level::Low)
DhtWriteLow ==
    /\ dpc = "writeLow"
    /\ pinOut' = "Low"
    /\ dpc' = "sleep"
    /\ UNCHANGED <<overflow_checks, pinMode, now, timeout, start, duration, data, bi,
                   j, lastBit, still, result, frame, pulse, rem, stayed>>
    /\ lowAt' = now
    /\ trace' = Append(trace, "low")
    /\ UNCHANGED <<ret, bits, failedPhase, lowHeld>>
    /\ UNCHANGED fireVars

\* std::thread::sleep(Duration::from_millis(20)): at least 20 ms pass
DhtSleep ==
    /\ dpc = "sleep"
    /\ \E over \in {0, OVERSLEEP} : now' = now + HoldMicros + over
    /\ dpc' = "writeHigh"
    /\ UNCHANGED <<overflow_checks, pinMode, pinOut, timeout, start, duration, data,
                   bi, j, lastBit, still, result, frame, pulse, rem, stayed>>
    /\ trace' = Append(trace, "hold")
    /\ UNCHANGED <<ret, bits, failedPhase, lowAt, lowHeld>>
    /\ UNCHANGED fireVars

\* pin.write(Level::High)
DhtWriteHigh ==
    /\ dpc = "writeHigh"
    /\ pinOut' = "High"
    /\ dpc' = "setInput"
    /\ UNCHANGED <<overflow_checks, pinMode, now, timeout, start, duration, data, bi,
                   j, lastBit, still, result, frame, pulse, rem, stayed>>
    /\ lowHeld' = now - lowAt
    /\ trace' = Append(trace, "high")
    /\ UNCHANGED <<ret, bits, failedPhase, lowAt>>
    /\ UNCHANGED fireVars

\* pin.set_mode(Mode::Input)
DhtSetInput ==
    /\ dpc = "setInput"
    /\ pinMode' = "Input"
    /\ dpc' = "setDeadline"
    /\ UNCHANGED <<overflow_checks, pinOut, now, timeout, start, duration, data, bi,
                   j, lastBit, still, result, frame, pulse, rem, stayed>>
    /\ trace' = Append(trace, "input")
    /\ UNCHANGED <<ret, bits, failedPhase, lowAt, lowHeld>>
    /\ UNCHANGED fireVars

\* let timeout = Instant::now() + Duration::from_millis(100)
DhtSetDeadline ==
    /\ dpc = "setDeadline"
    /\ timeout' = now + TIMEOUT_MS * 1000
    /\ dpc' = "waitResponse"
    /\ rem' = RESPONSE_DELAY
    /\ stayed' = FALSE
    /\ UNCHANGED <<overflow_checks, pinMode, pinOut, now, start, duration, data, bi,
                   j, lastBit, still, result, frame, pulse>>
    /\ UNCHANGED <<ret, bits, trace, failedPhase, lowAt, lowHeld>>
    /\ UNCHANGED fireVars

\* what the loop that was waiting in phase p does once pin.read() shows the
\* other level at time t: falls through to the code after the loop
LeaveWait(p, t) ==
    CASE p = "waitResponse" ->
           /\ dpc' = "waitRespLow"
           /\ rem' = RESPONSE_PULSE
           /\ trace' = Append(Sampled(trace), p)
           /\ UNCHANGED <<start, duration, data, bi, j, lastBit, pulse, bits>>
      [] p = "waitRespLow" ->
           /\ dpc' = "waitReady"
           /\ rem' = RESPONSE_PULSE
           /\ trace' = Append(trace, p)
           /\ UNCHANGED <<start, duration, data, bi, j, lastBit, pulse, bits>>
      [] p = "waitReady" ->
           \* let mut data = [0u8; 5]; the two for loops start at byte 0, j = 0
           /\ dpc' = "bitLow"
           /\ data' = <<0, 0, 0, 0, 0>>
           /\ bi' = 0
           /\ j' = 0
           /\ \E w \in SensorPulse(FrameBit(frame, 0)) :
                /\ pulse' = w
                /\ rem' = BIT_SLOT - w
           /\ trace' = Append(trace, p)
           /\ UNCHANGED <<start, duration, lastBit, bits>>
      [] p = "bitLow" ->
           \* let start = Instant::now()
           /\ dpc' = "bitHigh"
           /\ start' = t
           /\ rem' = pulse
           /\ UNCHANGED <<duration, data, bi, j, lastBit, pulse, bits, trace>>
      [] p = "bitHigh" ->
           \* let duration = start.elapsed(); if duration > 40us { *byte |= .. }
           LET d == t - start
               b == DecodeBit(d)
               k == bi * NBITS + j
           IN /\ duration' = d
              /\ lastBit' = b
              /\ bits' = Append(bits, b)
              /\ data' = IF b = 1 THEN [data EXCEPT ![bi + 1] = OrBit(@, j)]
                                  ELSE data
              /\ IF j = NBITS - 1 /\ bi = NBYTES - 1
                   THEN /\ dpc' = "verify"
                        /\ UNCHANGED <<bi, j, pulse, rem>>
                   ELSE /\ dpc' = "bitLow"
                        /\ j' = (j + 1) % NBITS
                        /\ bi' = IF j = NBITS - 1 THEN bi + 1 ELSE bi
                        /\ \E w \in SensorPulse(FrameBit(frame, k + 1)) :
                             /\ pulse' = w
                             /\ rem' = BIT_SLOT - w
              /\ UNCHANGED <<start, trace>>

\* One iteration of the wait loop of phase p:
\*     while pin.read() == <waited level> { if Instant::now() > timeout { return Err(Timeout) } }
\* dt passes, the pin is sampled; a line still at the waited level leads to the
\* deadline test, any other level leaves the loop without one.
Poll(p) ==
    /\ dpc = p
    /\ \E how \in {"edge", "stay", "stall", "late"} :
         LET dt == CASE how = "edge" -> rem
                     [] how = "stay" -> STAY_TICK
                     [] how = "stall" -> StallJump
                     [] how = "late" -> StallJump + rem
             t == now + dt
             seesWaited == how \in {"stay", "stall"}
         IN /\ how = "stay" => ~stayed /\ rem > STAY_TICK
            /\ how \in {"stall", "late"} => now <= timeout
            /\ now' = t
            /\ still' = seesWaited
            /\ IF seesWaited
                 THEN /\ IF TimedOut(p, t, timeout)
                           THEN /\ result' = ErrTimeout(TimeoutMsg(p))
                                /\ failedPhase' = p
                                /\ dpc' = "done"
                           ELSE UNCHANGED <<result, failedPhase, dpc>>
                      /\ rem' = IF how = "stay" THEN rem - STAY_TICK ELSE rem
                      /\ stayed' = (stayed \/ how = "stay")
                      /\ trace' = Sampled(trace)
                      /\ UNCHANGED <<start, duration, data, bi, j, lastBit, pulse, bits>>
                 ELSE /\ LeaveWait(p, t)
                      /\ stayed' = FALSE
                      /\ UNCHANGED <<result, failedPhase>>
    /\ UNCHANGED <<overflow_checks, pinMode, pinOut, timeout, frame, ret, lowAt, lowHeld>>
    /\ UNCHANGED fireVars

\* lines 111-123
DhtVerify ==
    /\ dpc = "verify"
    /\ result' = Verify(data, overflow_checks)
    /\ dpc' = "done"
    /\ UNCHANGED <<overflow_checks, pinMode, pinOut, now, timeout, start, duration,
                   data, bi, j, lastBit, still, frame, pulse, rem, stayed>>
    /\ UNCHANGED <<ret, bits, trace, failedPhase, lowAt, lowHeld>>
    /\ UNCHANGED fireVars

dhtBody == <<dpc, overflow_checks, pinMode, pinOut, now, timeout, start, duration,
             data, bi, j, lastBit, still, result, frame, pulse, rem, stayed,
             bits, trace, failedPhase, lowAt, lowHeld>>

\* read returns to its caller what read_internal produced
DhtReturnRead ==
    /\ dpc = "done"
    /\ ret = NoReturn
    /\ ret' = SyncReturn(result)
    /\ UNCHANGED dhtBody
    /\ UNCHANGED fireVars

\* read_async: the exchange ran on the blocking worker; the caller awaits the
\* join handle
DhtReturnAsync ==
    /\ dpc = "done"
    /\ ret = NoReturn
    /\ ret' = AsyncReturn(result, TRUE)
    /\ UNCHANGED dhtBody
    /\ UNCHANGED fireVars

\* read_async: the runtime drops the blocking task before it runs
DhtAsyncNotRun ==
    /\ dpc = "idle"
    /\ ret = NoReturn
    /\ ret' = AsyncReturn(result, FALSE)
    /\ UNCHANGED dhtBody
    /\ UNCHANGED fireVars

----------------------------------------------------------------------------
\* FireSensor (fire.rs)

\* Bound: start_monitoring calls (each spawns one task)
MaxTasks == 2
Tasks == 1..MaxTasks

\* const ALARM_FREQ: u32 = 1000; const ALARM_DURATION: u64 = 200
ALARM_FREQ == 1000
ALARM_DURATION == 200
\* let half_period = 1_000_000 / ALARM_FREQ / 2
half_period == (1000000 \div ALARM_FREQ) \div 2
\* faulty variant: one cycle is taken to last a half period
cyclesPerHalfPeriod == (ALARM_DURATION * 1000) \div half_period

\* let cycles = ALARM_DURATION * 1000 / (half_period as u64 * 2)
cycles == (ALARM_DURATION * 1000) \div (half_period * 2)

Levels == {"High", "Low"}

\* no time spent in a burst yet
NoBurst == [active |-> 0, off |-> 0]

\* FireSensorData and the errors the single-shot reads return
FireOk(fd, ts) == [kind |-> "Ok", flame_detected |-> fd, timestamp |-> ts, msg |-> ""]
FireErrGpio ==
    [kind |-> "GpioError", flame_detected |-> FALSE, timestamp |-> "None", msg |-> ""]
FireErrSensor(m) ==
    [kind |-> "SensorError", flame_detected |-> FALSE, timestamp |-> "None", msg |-> m]
NoRead == [op |-> "none", level |-> "Low", res |-> FireErrSensor("")]

\* FireSensor::read_internal, lines 60-86.  acquired: Gpio::new and gpio.get
\* succeeded; clockOk: SystemTime::now() is not before UNIX_EPOCH.
ReadInternal(ha, lvl, acquired, clockOk) ==
    IF ~acquired THEN FireErrGpio
    ELSE LET fd == IF ha THEN lvl = "High" ELSE lvl = "Low" IN
         IF fd
           THEN IF clockOk THEN FireOk(TRUE, "Some") ELSE FireErrSensor("Time error")
           ELSE FireOk(FALSE, "None")

\* faulty variant: the low-active arm of the copied closure tests the wrong level
ReadAsyncBodySwapped(ha, lvl, acquired, clockOk) ==
    IF ~acquired THEN FireErrGpio
    ELSE IF lvl = "High"
           THEN IF clockOk THEN FireOk(TRUE, "Some") ELSE FireErrSensor("Time error")
           ELSE FireOk(FALSE, "None")

\* the closure FireSensor::read_async hands to spawn_blocking, lines 136-162
ReadAsyncBody(ha, lvl, acquired, clockOk) ==
    IF ~acquired THEN FireErrGpio
    ELSE IF ha
           THEN IF lvl = "High"
                  THEN IF clockOk THEN FireOk(TRUE, "Some")
                                  ELSE FireErrSensor("Time error")
                  ELSE FireOk(FALSE, "None")
           ELSE IF lvl = "Low"
                  THEN IF clockOk THEN FireOk(TRUE, "Some")
                                  ELSE FireErrSensor("Time error")
                  ELSE FireOk(FALSE, "None")

\* .await.map_err(|e| SensorError::SensorError("Task join error: ..."))?
ReadAsync(ha, lvl, acquired, clockOk, joined) ==
    IF joined THEN ReadAsyncBody(ha, lvl, acquired, clockOk)
    ELSE FireErrSensor("Task join error")

\* the monitor loop's reading of the level, lines 240-244
Detect(ha, lvl) == IF ha THEN lvl = "High" ELSE lvl = "Low"

\* FireSensor::new: is_active: Arc::new(Mutex::new(true))
NewIsActive == TRUE

FireInit ==
    /\ is_active = NewIsActive
    /\ high_active \in BOOLEAN
    /\ tpc = [t \in Tasks |-> "unspawned"]
    /\ cycle = [t \in Tasks |-> 0]
    /\ burstMicros = [t \in Tasks |-> NoBurst]
    /\ flame_detected = [t \in Tasks |-> FALSE]
    /\ flameHeld = 0
    /\ buzzerHeld = 0
    /\ buzzer = "None"
    /\ startRet = [t \in Tasks |-> "None"]
    /\ stoppedAtSpawn = [t \in Tasks |-> FALSE]
    /\ lastRead = NoRead
    /\ gets = [t \in Tasks |-> 0]
    /\ getFailed = [t \in Tasks |-> FALSE]
    /\ sampled = [t \in Tasks |-> FALSE]
    /\ drove = [t \in Tasks |-> FALSE]
    /\ burstAtStop = FALSE
    /\ readsAfterStop = 0
    /\ burstsAfterStop = 0
    /\ sleepsAfterStop = 0

\* the history variables no operation of this group touches
histVars == <<burstAtStop, readsAfterStop, burstsAfterStop, sleepsAfterStop>>

\* Bound: the counters of events after the stop saturate here
CountCap == 2
Count(c) == IF c < CountCap THEN c + 1 ELSE c

\* faulty variant: the single-shot read also switches the buzzer off
FireReadSilencing ==
    /\ \E lvl \in Levels, acquired \in BOOLEAN, clockOk \in BOOLEAN :
         /\ acquired => flameHeld = 0
         /\ lastRead' = [op |-> "read", level |-> lvl,
                         res |-> ReadInternal(high_active, lvl, acquired, clockOk)]
    /\ buzzer' = "High"
    /\ UNCHANGED <<is_active, high_active, tpc, cycle, burstMicros, flame_detected,
                   flameHeld, buzzerHeld, startRet, gets, sampled, drove>>
    /\ UNCHANGED <<histVars, getFailed>>
    /\ UNCHANGED stoppedAtSpawn
    /\ UNCHANGED dhtVars

\* FireDetector::read, lines 107-109: gpio.get fails while a monitor task holds
\* the flame pin (the pin is owned), and may fail for any other reason
FireRead ==
    /\ \E lvl \in Levels, acquired \in BOOLEAN, clockOk \in BOOLEAN :
         /\ acquired => flameHeld = 0
         /\ lastRead' = [op |-> "read", level |-> lvl,
                         res |-> ReadInternal(high_active, lvl, acquired, clockOk)]
    /\ UNCHANGED <<is_active, high_active, tpc, cycle, burstMicros, flame_detected, flameHeld,
                   buzzerHeld, buzzer, startRet, gets, sampled, drove>>
    /\ UNCHANGED <<histVars, getFailed>>
    /\ UNCHANGED stoppedAtSpawn
    /\ UNCHANGED dhtVars

\* FireDetector::read_async, lines 131-165
FireReadAsync ==
    /\ \E lvl \in Levels, acquired \in BOOLEAN, clockOk \in BOOLEAN,
          joined \in BOOLEAN :
         /\ acquired => flameHeld = 0
         /\ lastRead' = [op |-> "read_async", level |-> lvl,
                         res |-> ReadAsync(high_active, lvl, acquired, clockOk, joined)]
    /\ UNCHANGED <<is_active, high_active, tpc, cycle, burstMicros, flame_detected, flameHeld,
                   buzzerHeld, buzzer, startRet, gets, sampled, drove>>
    /\ UNCHANGED <<histVars, getFailed>>
    /\ UNCHANGED stoppedAtSpawn
    /\ UNCHANGED dhtVars

\* the task slot the next tokio::spawn uses
FreeSlot(t) == /\ tpc[t] = "unspawned"
               /\ \A u \in Tasks : u < t => tpc[u] # "unspawned"

\* faulty variant: starting re-arms the flag
StartIsActiveRearm(flag) == TRUE

\* line 203: let is_active_clone = self.is_active.clone(): the task shares the
\* flag; start_monitoring does not write it
StartIsActive(flag) == flag

\* what start_monitoring returns after tokio::spawn, line 273
StartReturn == "Ok"

\* FireDetector::start_monitoring, lines 192-274: Gpio::new()? returns the
\* GpioError to the caller and spawns nothing; otherwise the task is spawned
\* and Ok(()) is returned, and the task body runs on its own
StartMonitoring ==
    /\ \E newOk \in BOOLEAN :
         IF newOk
           THEN \E t \in Tasks :
                  /\ FreeSlot(t)
                  /\ tpc' = [tpc EXCEPT ![t] = "init"]
                  /\ startRet' = [startRet EXCEPT ![t] = StartReturn]
                  /\ stoppedAtSpawn' = [stoppedAtSpawn EXCEPT ![t] = ~is_active]
           ELSE UNCHANGED <<tpc, startRet, stoppedAtSpawn>>
    /\ is_active' = StartIsActive(is_active)
    /\ UNCHANGED <<high_active, cycle, burstMicros, flame_detected, flameHeld,
                   buzzerHeld, buzzer, lastRead, gets, sampled, drove>>
    /\ UNCHANGED <<histVars, getFailed>>
    /\ UNCHANGED dhtVars

\* faulty variant: the error arm logs and falls through to the code after the match
AfterGetFailedFallThrough == "initOff"

\* where a task goes when gpio.get fails: eprintln!, return
AfterGetFailed == "initFailed"

\* lines 209-215: let flame_sensor = match gpio.get(flame_pin_clone)
TaskGetFlame(t) ==
    /\ tpc[t] = "init"
    /\ gets' = [gets EXCEPT ![t] = @ + 1]
    /\ \E ok \in BOOLEAN :
         /\ ok => flameHeld = 0
         /\ getFailed' = [getFailed EXCEPT ![t] = @ \/ ~ok]
         /\ IF ok THEN /\ flameHeld' = t
                       /\ tpc' = [tpc EXCEPT ![t] = "getBuzzer"]
                  ELSE /\ tpc' = [tpc EXCEPT ![t] = AfterGetFailed]
                       /\ UNCHANGED flameHeld
    /\ UNCHANGED <<is_active, high_active, cycle, burstMicros, flame_detected, buzzerHeld, buzzer,
                   startRet, lastRead, sampled, drove>>
    /\ UNCHANGED histVars
    /\ UNCHANGED stoppedAtSpawn
    /\ UNCHANGED dhtVars

\* lines 217-223: let mut buzzer = match gpio.get(buzzer_pin_clone); on the
\* error path the task returns and its flame pin is dropped
TaskGetBuzzer(t) ==
    /\ tpc[t] = "getBuzzer"
    /\ gets' = [gets EXCEPT ![t] = @ + 1]
    /\ \E ok \in BOOLEAN :
         /\ ok => buzzerHeld = 0
         /\ getFailed' = [getFailed EXCEPT ![t] = @ \/ ~ok]
         /\ IF ok THEN /\ buzzerHeld' = t
                       /\ tpc' = [tpc EXCEPT ![t] = "initOff"]
                       /\ UNCHANGED flameHeld
                  ELSE /\ tpc' = [tpc EXCEPT ![t] = AfterGetFailed]
                       /\ flameHeld' = IF AfterGetFailed = "initFailed" THEN 0
                                       ELSE flameHeld
                       /\ UNCHANGED buzzerHeld
    /\ UNCHANGED <<is_active, high_active, cycle, burstMicros, flame_detected, buzzer, startRet,
                   lastRead, sampled, drove>>
    /\ UNCHANGED histVars
    /\ UNCHANGED stoppedAtSpawn
    /\ UNCHANGED dhtVars

\* faulty variant: the line is initialised to the active level
InitLevelActive == "Low"

\* the level the loop's set-up leaves on the buzzer line (set_high: off)
InitLevel == "High"

\* faulty variant: the flag is first tested at the end of an iteration
AfterInitToRead == "read"

\* line 229: the loop is entered at its top, the flag test of lines 231-237
AfterInit == "check"

\* line 226: buzzer.set_high()
TaskInitOff(t) ==
    /\ tpc[t] = "initOff"
    /\ buzzer' = InitLevel
    /\ drove' = [drove EXCEPT ![t] = TRUE]
    /\ tpc' = [tpc EXCEPT ![t] = AfterInit]
    /\ UNCHANGED <<is_active, high_active, cycle, burstMicros, flame_detected, flameHeld,
                   buzzerHeld, startRet, lastRead, gets, sampled>>
    /\ UNCHANGED <<histVars, getFailed>>
    /\ UNCHANGED stoppedAtSpawn
    /\ UNCHANGED dhtVars

\* faulty variant: the loop ends at its first flag test whatever the flag holds
ShouldBreakAlways(flag) == TRUE

\* faulty variant: the loop never looks at the flag
ShouldBreakNever(flag) == FALSE

\* line 233: if !*is_active
ShouldBreak(flag) == ~flag

\* lines 231-237: the flag test under the lock; on false the buzzer is set
\* high, the loop breaks, the task ends and both pins are dropped
TaskCheck(t) ==
    /\ tpc[t] = "check"
    /\ IF ShouldBreak(is_active)
         THEN /\ buzzer' = "High"
              /\ drove' = [drove EXCEPT ![t] = TRUE]
              /\ tpc' = [tpc EXCEPT ![t] = "stopped"]
              /\ flameHeld' = 0
              /\ buzzerHeld' = 0
         ELSE /\ tpc' = [tpc EXCEPT ![t] = "read"]
              /\ UNCHANGED <<buzzer, drove, flameHeld, buzzerHeld>>
    /\ UNCHANGED <<is_active, high_active, cycle, burstMicros, flame_detected, startRet, lastRead, gets, sampled>>
    /\ UNCHANGED <<histVars, getFailed>>
    /\ UNCHANGED stoppedAtSpawn
    /\ UNCHANGED dhtVars

\* faulty variant: the toggle loop also ends when the flag is found false
BurstContinuesWhileActive(done) == done < cycles /\ is_active

\* line 257: for _ in 0..cycles, after `done` completed cycles
BurstContinues(done) == done < cycles

\* both branches of `if flame_detected` fall through to the interval sleep
AfterBody == "sleep"

\* faulty variant: the flag is tested once, before the loop
AfterSleepToRead == "read"

\* line 229: loop { ... }: after the sleep the next iteration starts at the flag test
AfterSleep == "check"

\* lines 240-247: flame_sensor.read() and the branch on flame_detected;
\* for _ in 0..cycles starts at 0
TaskRead(t) ==
    /\ tpc[t] = "read"
    /\ \E lvl \in Levels :
         LET fd == Detect(high_active, lvl) IN
         /\ flame_detected' = [flame_detected EXCEPT ![t] = fd]
         /\ tpc' = [tpc EXCEPT ![t] = IF fd /\ BurstContinues(0) THEN "burstLow"
                                       ELSE IF fd THEN AfterBody ELSE "off"]
         /\ burstsAfterStop' = IF fd /\ BurstContinues(0) /\ ~is_active
                                 THEN Count(burstsAfterStop) ELSE burstsAfterStop
    /\ cycle' = [cycle EXCEPT ![t] = 0]
    /\ burstMicros' = [burstMicros EXCEPT ![t] = NoBurst]
    /\ sampled' = [sampled EXCEPT ![t] = TRUE]
    /\ readsAfterStop' = IF ~is_active THEN Count(readsAfterStop) ELSE readsAfterStop
    /\ UNCHANGED <<is_active, high_active, flameHeld, buzzerHeld, buzzer, startRet,
                   lastRead, gets, drove>>
    /\ UNCHANGED <<burstAtStop, sleepsAfterStop, getFailed>>
    /\ UNCHANGED stoppedAtSpawn
    /\ UNCHANGED dhtVars

\* lines 258-259: buzzer.set_low(); thread::sleep(half_period)
TaskBurstLow(t) ==
    /\ tpc[t] = "burstLow"
    /\ buzzer' = "Low"
    /\ drove' = [drove EXCEPT ![t] = TRUE]
    /\ burstMicros' = [burstMicros EXCEPT ![t].active = @ + half_period]
    /\ tpc' = [tpc EXCEPT ![t] = "burstHigh"]
    /\ UNCHANGED <<is_active, high_active, cycle, flame_detected, flameHeld,
                   buzzerHeld, startRet, lastRead, gets, sampled>>
    /\ UNCHANGED <<histVars, getFailed>>
    /\ UNCHANGED stoppedAtSpawn
    /\ UNCHANGED dhtVars

\* lines 260-262: buzzer.set_high(); thread::sleep(half_period); next cycle
TaskBurstHigh(t) ==
    /\ tpc[t] = "burstHigh"
    /\ buzzer' = "High"
    /\ drove' = [drove EXCEPT ![t] = TRUE]
    /\ cycle' = [cycle EXCEPT ![t] = @ + 1]
    /\ burstMicros' = [burstMicros EXCEPT ![t].off = @ + half_period]
    /\ tpc' = [tpc EXCEPT ![t] = IF BurstContinues(cycle[t] + 1) THEN "burstLow"
                                  ELSE AfterBody]
    /\ UNCHANGED <<is_active, high_active, flame_detected, flameHeld, buzzerHeld,
                   startRet, lastRead, gets, sampled>>
    /\ UNCHANGED <<histVars, getFailed>>
    /\ UNCHANGED stoppedAtSpawn
    /\ UNCHANGED dhtVars

\* lines 263-266: no flame, buzzer.set_high()
TaskOff(t) ==
    /\ tpc[t] = "off"
    /\ buzzer' = "High"
    /\ drove' = [drove EXCEPT ![t] = TRUE]
    /\ tpc' = [tpc EXCEPT ![t] = AfterBody]
    /\ UNCHANGED <<is_active, high_active, cycle, burstMicros, flame_detected, flameHeld,
                   buzzerHeld, startRet, lastRead, gets, sampled>>
    /\ UNCHANGED <<histVars, getFailed>>
    /\ UNCHANGED stoppedAtSpawn
    /\ UNCHANGED dhtVars

\* line 269: sleep(Duration::from_millis(check_interval_ms)).await
TaskSleep(t) ==
    /\ tpc[t] = "sleep"
    /\ tpc' = [tpc EXCEPT ![t] = AfterSleep]
    /\ sleepsAfterStop' = IF ~is_active THEN Count(sleepsAfterStop) ELSE sleepsAfterStop
    /\ UNCHANGED <<is_active, high_active, cycle, burstMicros, flame_detected, flameHeld,
                   buzzerHeld, buzzer, startRet, lastRead, gets, sampled,
                   drove>>
    /\ UNCHANGED <<burstAtStop, readsAfterStop, burstsAfterStop, getFailed>>
    /\ UNCHANGED stoppedAtSpawn
    /\ UNCHANGED dhtVars

InBurst(t) == tpc[t] \in {"burstLow", "burstHigh"}

\* faulty variant: stopping also silences the buzzer
StopMonitoringSilencing ==
    /\ is_active' = FALSE
    /\ buzzer' = "High"
    /\ burstAtStop' = IF is_active THEN \E t \in Tasks : InBurst(t) ELSE burstAtStop
    /\ UNCHANGED <<high_active, tpc, cycle, burstMicros, flame_detected, flameHeld, buzzerHeld,
                   startRet, lastRead, gets, sampled, drove>>
    /\ UNCHANGED <<readsAfterStop, burstsAfterStop, sleepsAfterStop, getFailed>>
    /\ UNCHANGED stoppedAtSpawn
    /\ UNCHANGED dhtVars

\* FireDetector::stop_monitoring, lines 295-298: *is_active = false
StopMonitoring ==
    /\ is_active' = FALSE
    /\ burstAtStop' = IF is_active THEN \E t \in Tasks : InBurst(t) ELSE burstAtStop
    /\ UNCHANGED <<high_active, tpc, cycle, burstMicros, flame_detected, flameHeld, buzzerHeld,
                   buzzer, startRet, lastRead, gets, sampled, drove>>
    /\ UNCHANGED <<readsAfterStop, burstsAfterStop, sleepsAfterStop, getFailed>>
    /\ UNCHANGED stoppedAtSpawn
    /\ UNCHANGED dhtVars

TaskStep(t) ==
    \/ TaskGetFlame(t)
    \/ TaskGetBuzzer(t)
    \/ TaskInitOff(t)
    \/ TaskCheck(t)
    \/ TaskRead(t)
    \/ TaskBurstLow(t)
    \/ TaskBurstHigh(t)
    \/ TaskOff(t)
    \/ TaskSleep(t)

FireNext ==
    \/ FireRead
    \/ FireReadAsync
    \/ StartMonitoring
    \/ StopMonitoring
    \/ \E t \in Tasks : TaskStep(t)

----------------------------------------------------------------------------
DhtNext ==
    \/ DhtAcquire
    \/ DhtWriteLow
    \/ DhtSleep
    \/ DhtWriteHigh
    \/ DhtSetInput
    \/ DhtSetDeadline
    \/ \E p \in WaitPhases : Poll(p)
    \/ DhtVerify
    \/ DhtReturnRead
    \/ DhtReturnAsync
    \/ DhtAsyncNotRun

\* the decoder before any read is called, on a fixed frame and build
DhtQuiet ==
    /\ DhtInit
    /\ frame = <<50, 0, 28, 0, 78>>
    /\ overflow_checks = FALSE

\* a FireSensor just constructed
FireQuiet ==
    /\ FireInit
    /\ high_active = TRUE

InitDht == DhtInit /\ FireQuiet

InitFire == FireInit /\ DhtQuiet

\* one Dht11Sensor::read exchange
SpecDht == InitDht /\ [][DhtNext]_vars

\* the read runs on a thread that keeps executing: a step that is possible is
\* eventually taken
FairSpecDht == InitDht /\ [][DhtNext]_vars /\ WF_vars(DhtNext)

\* the FireSensor operations and the monitor tasks
SpecFire == InitFire /\ [][FireNext]_vars

\* start, stop and the spawned tasks: the monitor without the single-shot
\* reads, which write none of the monitor's state
MonitorNext ==
    \/ StartMonitoring
    \/ StopMonitoring
    \/ \E t \in Tasks : TaskStep(t)

\* the monitor under a runtime that keeps polling every spawned task
FairSpecFire ==
    InitFire /\ [][MonitorNext]_vars /\ \A t \in Tasks : WF_vars(TaskStep(t))

----------------------------------------------------------------------------
\* Claims about Dht11Sensor::read (checked under SpecDht)

\* read ran to the checksum test: all 40 bits were decoded
Verified == dpc = "done" /\ result.kind \notin {"Timeout", "GpioError"}

\* (byte[0] + byte[1] + byte[2] + byte[3]) mod 256
WireSum(d) == (d[1] + d[2] + d[3] + d[4]) % 256

\* bit k (0..39) of the decoded bytes, most significant bit of byte 0 first
DataBit(d, k) == (d[(k \div 8) + 1] \div Pow2(7 - (k % 8))) % 2

\* data bits decoded so far
NumDecoded == IF dpc = "verify" \/ Verified THEN 40 ELSE bi * 8 + j

\* C1: whenever the five decoded bytes satisfy byte[4] = (byte[0] + byte[1] +
\* byte[2] + byte[3]) mod 256, also when the four-byte sum is 256 or more, read
\* returns Ok with temperature = byte[2] and humidity = byte[0].
C1_ValidChecksumAccepted ==
    (Verified /\ data[5] = WireSum(data)) => result = OkReading(data[3], data[1])

\* C2: whenever the five decoded bytes have byte[4] different from (byte[0] +
\* byte[1] + byte[2] + byte[3]) mod 256, read returns the DataValidation error.
C2_BadChecksumRejected ==
    (Verified /\ data[5] # WireSum(data)) => result.kind = "DataValidation"

\* C3: a measured high duration of 40 us or less decodes as bit 0 and one of
\* 41 us or more as bit 1, and that bit is what is stored in the data.
C3_BitThreshold ==
    NumDecoded > 0 =>
        /\ duration <= 40 => (lastBit = 0 /\ DataBit(data, NumDecoded - 1) = 0)
        /\ duration >= 41 => (lastBit = 1 /\ DataBit(data, NumDecoded - 1) = 1)

\* C3 witness: a pulse measured at exactly 40 us has been decoded (as 0)
C3_Witness == NumDecoded > 0 /\ duration = 40 /\ lastBit = 0 /\ dpc = "bitLow"

\* C4: when a wait loop samples the line after the deadline and finds it still
\* at the waited-on level, read has returned Timeout and carries no reading,
\* whatever was decoded before.
C4_TimeoutAborts ==
    (timeout >= 0 /\ still /\ now > timeout) =>
        /\ dpc = "done"
        /\ result.kind = "Timeout"
        /\ result = ErrTimeout(result.msg)
        /\ \E p \in WaitPhases : result.msg = TimeoutMsg(p)

\* C4 witness: the deadline passes in the high measurement of the 40th bit,
\* with 39 bits collected whose bytes satisfy the checksum relation
C4_Witness ==
    /\ still /\ now > timeout /\ result.kind = "Timeout"
    /\ bi = 4 /\ j = 7
    /\ data[1] > 0
    /\ data[5] = WireSum(data)
    /\ result.msg = TimeoutMsg("bitHigh")

----------------------------------------------------------------------------
\* Claims about FireSensor (checked under SpecFire and FairSpecFire)

\* a task that has ended: the loop broke, or line initialization failed
Terminal(t) == tpc[t] \in {"stopped", "initFailed"}

\* a task between its passed flag check and its next one
InLoopBody(t) == tpc[t] \in {"read", "burstLow", "burstHigh", "off", "sleep"}

\* C5: a successful single-shot read maps the level to flame_detected by the
\* polarity (high-active: High = flame; low-active: Low = flame), carries a
\* timestamp exactly when a flame is detected, and read and read_async return
\* the same successful result for the same level and polarity.
C5_Polarity ==
    LET r == lastRead.res
        lvl == lastRead.level
    IN (lastRead.op \in {"read", "read_async"} /\ r.kind = "Ok") =>
         /\ (high_active /\ lvl = "High") => (r.flame_detected /\ r.timestamp = "Some")
         /\ (high_active /\ lvl = "Low") => (~r.flame_detected /\ r.timestamp = "None")
         /\ (~high_active /\ lvl = "Low") => (r.flame_detected /\ r.timestamp = "Some")
         /\ (~high_active /\ lvl = "High") => (~r.flame_detected /\ r.timestamp = "None")
         /\ (r.timestamp = "Some") <=> r.flame_detected
         /\ lastRead.op = "read_async" => r = ReadInternal(high_active, lvl, TRUE, TRUE)
         /\ lastRead.op = "read" => r = ReadAsync(high_active, lvl, TRUE, TRUE, TRUE)

\* C5 witness: a low-active sensor's read_async saw Low and reported a flame
C5_Witness ==
    /\ lastRead.op = "read_async"
    /\ ~high_active
    /\ lastRead.level = "Low"
    /\ lastRead.res = FireOk(TRUE, "Some")

\* C6 as claimed: once the flag is false every spawned task ends, the buzzer is
\* not driven active after that, and the loop spends at most one interval
\* sleep plus the remainder of a burst that was in progress at the stop: no
\* burst starts after the stop.
C6_StopWithinIntervalAndRemainder ==
    ~is_active => (sleepsAfterStop <= 1 /\ burstsAfterStop = 0)

\* C6 amended: once the flag is false every spawned task ends; after that the
\* buzzer is never driven active again; and between the stop and the end the
\* loop finishes at most one interval sleep and starts at most one burst, none
\* when a burst was already in progress at the stop.
C6_StopTerminates ==
    /\ \A t \in Tasks : (tpc[t] # "unspawned" /\ ~is_active) ~> Terminal(t)
    /\ [][(~is_active /\ \A t \in Tasks : ~InLoopBody(t))
            => (buzzer' # "Low" /\ \A t \in Tasks : ~InLoopBody(t)')]_vars
    /\ [](\A t \in Tasks : tpc[t] = "stopped" => buzzer = "High")
    /\ [](~is_active => /\ sleepsAfterStop <= 1
                        /\ burstsAfterStop <= 1
                        /\ burstAtStop => burstsAfterStop = 0)

\* C6 witness: the stop landed between the flag check and the flame read, a
\* whole burst ran after it, and the loop then stopped with the buzzer off
C6_Witness ==
    /\ ~is_active
    /\ ~burstAtStop
    /\ burstsAfterStop = 1
    /\ sleepsAfterStop = 1
    /\ \E t \in Tasks : tpc[t] = "stopped" /\ cycle[t] = cycles
    /\ buzzer = "High"

\* C7: a start whose task could not acquire the flame line or the buzzer line
\* returned an error to its caller.
C7_InitFailureReturned ==
    \A t \in Tasks : getFailed[t] => startRet[t] # "Ok"

\* C8: a task whose gpio.get failed ends there: it never enters the loop,
\* never reads the flame line, never drives the buzzer, and calls gpio.get
\* no further time.
C8_FailedInitNeverRuns ==
    /\ [](\A t \in Tasks : getFailed[t] =>
            /\ tpc[t] = "initFailed"
            /\ ~sampled[t]
            /\ ~drove[t]
            /\ gets[t] <= 2
            /\ flameHeld # t /\ buzzerHeld # t)
    /\ [][\A t \in Tasks : getFailed[t] =>
            (tpc'[t] = tpc[t] /\ gets'[t] = gets[t])]_vars

\* C8 witness: a task failed on the buzzer line after it had the flame line,
\* and a later start ran its loop
C8_Witness ==
    \E t, u \in Tasks :
        /\ getFailed[t] /\ gets[t] = 2 /\ tpc[t] = "initFailed"
        /\ tpc[u] = "sleep" /\ sampled[u]

\* C9: stop_monitoring can always be called; it sets the flag to false and
\* changes nothing else (not the buzzer, no task, no pin), and called on an
\* already false flag it changes nothing at all.
C9_StopOnlyClearsFlag ==
    /\ [](ENABLED StopMonitoring)
    /\ [][StopMonitoring =>
            /\ is_active' = FALSE
            /\ UNCHANGED <<high_active, tpc, cycle, burstMicros, flame_detected, flameHeld,
                           buzzerHeld, buzzer, startRet, lastRead, gets, getFailed,
                           sampled, drove>>
            /\ ~is_active => UNCHANGED vars]_vars

\* C9 witness: the flag was cleared in the middle of a burst and the buzzer is
\* still at its active level
C9_Witness ==
    /\ ~is_active
    /\ burstAtStop
    /\ buzzer = "Low"
    /\ \E t \in Tasks : tpc[t] = "burstHigh"

\* C10: once the flag is false it stays false under every operation, a stopped
\* task stays stopped, and no task passes the flag check into a flame read
\* while the flag is false, also for a task started after the stop.
C10_NeverRestarted ==
    /\ [][~is_active => ~is_active']_vars
    /\ [][\A t \in Tasks : tpc[t] = "stopped" => tpc'[t] = "stopped"]_vars
    /\ [][\A t \in Tasks : (~is_active /\ tpc'[t] = "read") => tpc[t] = "read"]_vars

\* C10 witness: start_monitoring was called again on a stopped monitor, and
\* the new task stopped at its first flag check without reading the flame line
C10_Witness ==
    \E t, u \in Tasks :
        /\ t # u
        /\ ~is_active
        /\ tpc[t] = "stopped" /\ sampled[t]
        /\ tpc[u] = "stopped" /\ ~sampled[u]

----------------------------------------------------------------------------
\* FireSensor monitor loop, continued

\* the states of the loop proper, from the first flag check on
InLoop(t) == tpc[t] \in {"check", "read", "burstLow", "burstHigh", "off", "sleep"}

\* C11: a burst in progress is not cut short by a stop: a task inside a burst
\* stays in it, cycle by cycle, until all of its toggle cycles are done and
\* then goes to the interval sleep, whatever the flag says; a task asleep
\* after a detected flame has completed every cycle; the sleep leads only to
\* the flag check; and a task becomes Stopped only from the flag check.
C11_BurstRunsToCompletion ==
    /\ [][\A t \in Tasks : InBurst(t) =>
            \/ /\ InBurst(t)'
               /\ cycle'[t] \in {cycle[t], cycle[t] + 1}
               /\ cycle'[t] < cycles
            \/ /\ tpc'[t] = "sleep"
               /\ cycle'[t] = cycles]_vars
    /\ [](\A t \in Tasks : (tpc[t] = "sleep" /\ flame_detected[t]) => cycle[t] = cycles)
    /\ [][\A t \in Tasks : tpc[t] = "sleep" => tpc'[t] \in {"sleep", "check"}]_vars
    /\ [][\A t \in Tasks : (tpc'[t] = "stopped" /\ tpc[t] # "stopped")
                             => tpc[t] = "check"]_vars

\* C11 witness: the flag was cleared during a burst, the burst still ran all
\* of its cycles, the loop slept once and stopped at the following flag check
C11_Witness ==
    /\ ~is_active
    /\ burstAtStop
    /\ burstsAfterStop = 0
    /\ sleepsAfterStop = 1
    /\ \E t \in Tasks : /\ tpc[t] = "stopped"
                        /\ cycle[t] = cycles
                        /\ burstMicros[t].off = cycles * half_period

\* C12: the loop does not end by itself: a task is Stopped only while the flag
\* is false, and it becomes Stopped only from a flag check made with the flag
\* false; a task that has initialised its lines stays in the loop as long as
\* the flag is true, and from its flag check and from its interval sleep it
\* reaches the next flame read unless the flag is cleared; the start call has
\* returned Ok at the moment its task is spawned, before the task's first step.
C12_RunsUntilStopped ==
    /\ [](\A t \in Tasks : tpc[t] = "stopped" => ~is_active)
    /\ [][\A t \in Tasks : (tpc'[t] = "stopped" /\ tpc[t] # "stopped")
                             => (tpc[t] = "check" /\ ~is_active)]_vars
    /\ [][\A t \in Tasks : (InLoop(t) /\ is_active') => InLoop(t)']_vars
    /\ \A t \in Tasks : (tpc[t] \in {"check", "sleep"}) ~> (tpc[t] = "read" \/ ~is_active)
    /\ [][\A t \in Tasks : (tpc[t] = "unspawned" /\ tpc'[t] # "unspawned")
                             => (tpc'[t] = "init" /\ startRet'[t] = "Ok")]_vars

\* C12 witness: with the flag still true the loop is asleep after its second
\* poll at least: it has read the flame line and completed a burst
C12_Witness ==
    /\ is_active
    /\ \E t \in Tasks : /\ tpc[t] = "check"
                        /\ startRet[t] = "Ok"
                        /\ sampled[t]
                        /\ cycle[t] = cycles

\* C13: a single-shot read or read_async, whatever it returns, changes neither
\* the buzzer line nor the continue-flag, and no monitor task, pin or burst.
C13_ReadsLeaveMonitorAlone ==
    [][(FireRead \/ FireReadAsync \/ lastRead' # lastRead) =>
         UNCHANGED <<buzzer, is_active, high_active, tpc, cycle, burstMicros,
                     flame_detected, flameHeld, buzzerHeld, startRet, drove>>]_vars

\* C13 witness: a read_async failed on the owned flame pin while the monitor
\* is in a burst with the buzzer active and the flag true
C13_Witness ==
    /\ lastRead.op = "read_async"
    /\ lastRead.res.kind = "GpioError"
    /\ is_active
    /\ buzzer = "Low"
    /\ \E t \in Tasks : tpc[t] = "burstHigh" /\ cycle[t] > 0

\* C15: with the flag false a task leaves its flag check only to Stopped, and
\* the interval sleep leads only to the flag check; so after the stop the loop
\* reads the flame line at most once and starts at most one burst.
C15_FirstCheckAfterStopEnds ==
    /\ [][\A t \in Tasks : (tpc[t] = "check" /\ ~is_active /\ tpc'[t] # "check")
                             => tpc'[t] = "stopped"]_vars
    /\ [][\A t \in Tasks : (tpc[t] = "sleep" /\ tpc'[t] # "sleep")
                             => tpc'[t] = "check"]_vars
    /\ [](~is_active => (readsAfterStop <= 1 /\ burstsAfterStop <= 1))

\* C15 witness: the stop landed between the flag check and the flame read; the
\* loop read the line once more, saw no flame, slept and stopped
C15_Witness ==
    /\ ~is_active
    /\ readsAfterStop = 1
    /\ burstsAfterStop = 0
    /\ sleepsAfterStop = 1
    /\ \E t \in Tasks : tpc[t] = "stopped" /\ ~flame_detected[t]

\* C18: a burst is entered only from a flame read that detected a flame; it
\* has exactly 200 cycles, each with the buzzer driven active (Low) for a
\* requested 500 us and then off (High) for 500 us; and it ends with the
\* buzzer off after 100 ms active and 100 ms off.
C18_BurstShape ==
    /\ [](\A t \in Tasks : InBurst(t) => (flame_detected[t] /\ cycle[t] < 200))
    /\ [](\A t \in Tasks :
            burstMicros[t] =
              [active |-> 500 * (cycle[t] + (IF tpc[t] = "burstHigh" THEN 1 ELSE 0)),
               off |-> 500 * cycle[t]])
    /\ [][\A t \in Tasks : (~InBurst(t) /\ InBurst(t)')
            => (tpc[t] = "read" /\ flame_detected'[t] /\ cycle'[t] = 0)]_vars
    /\ [][\A t \in Tasks : (tpc[t] = "burstLow" /\ tpc'[t] # "burstLow")
            => (tpc'[t] = "burstHigh" /\ buzzer' = "Low")]_vars
    /\ [][\A t \in Tasks : (tpc[t] = "burstHigh" /\ tpc'[t] # "burstHigh")
            => (buzzer' = "High" /\ cycle'[t] = cycle[t] + 1)]_vars
    /\ [][\A t \in Tasks : (InBurst(t) /\ ~InBurst(t)')
            => /\ cycle'[t] = 200
               /\ burstMicros'[t] = [active |-> 100000, off |-> 100000]
               /\ buzzer' = "High"]_vars

\* C18 witness: a burst has just ended after 200 cycles with the buzzer off
C18_Witness ==
    /\ buzzer = "High"
    /\ \E t \in Tasks : /\ tpc[t] = "sleep"
                        /\ flame_detected[t]
                        /\ cycle[t] = 200
                        /\ burstMicros[t] = [active |-> 100000, off |-> 100000]

\* C19: once a task is in the loop the buzzer is off (High) whenever that task
\* is not between the two halves of a burst cycle: at the flag check, at the
\* flame read, after a read without flame, during the interval sleep, between
\* cycles and when Stopped; the buzzer is active only inside a burst.
C19_BuzzerOffOutsideBurst ==
    /\ \A t \in Tasks :
         tpc[t] \in {"check", "read", "off", "sleep", "stopped", "burstLow"}
           => buzzer = "High"
    /\ buzzer = "Low" => \E t \in Tasks : tpc[t] = "burstHigh"

\* C19 witness: after a burst the loop polled again, saw no flame, and is in
\* its interval sleep with the buzzer off
C19_Witness ==
    /\ is_active
    /\ buzzer = "High"
    /\ \E t \in Tasks : /\ tpc[t] = "sleep"
                        /\ ~flame_detected[t]
                        /\ drove[t]
                        /\ sampled[t]

\* C21: a task spawned by a start_monitoring that found the flag already
\* false never reads the flame line and never enters a burst; unless one of
\* its gpio.get calls fails it acquires both lines, drives the buzzer to its
\* off level (High) and becomes Stopped at its first flag check, so that it
\* always ends Stopped or with a failed acquisition.
C21_StoppedBeforeStart ==
    /\ [](\A t \in Tasks : stoppedAtSpawn[t] =>
            /\ ~sampled[t]
            /\ tpc[t] \in {"init", "getBuzzer", "initOff", "check", "stopped", "initFailed"}
            /\ cycle[t] = 0
            /\ burstMicros[t] = NoBurst)
    /\ [](\A t \in Tasks : (stoppedAtSpawn[t] /\ tpc[t] \in {"check", "stopped"}) =>
            (buzzer = "High" /\ drove[t] /\ gets[t] = 2))
    /\ [][\A t \in Tasks : (stoppedAtSpawn[t] /\ tpc[t] = "check" /\ tpc'[t] # "check")
            => tpc'[t] = "stopped"]_vars
    /\ \A t \in Tasks : stoppedAtSpawn[t] ~> (tpc[t] = "stopped" \/ getFailed[t])

\* C21 witness: stop came before the only start; the task took both lines,
\* set the buzzer off and stopped, and no task ever read the flame line
C21_Witness ==
    /\ ~is_active
    /\ buzzer = "High"
    /\ \A u \in Tasks : ~sampled[u] /\ ~getFailed[u]
    /\ \E t \in Tasks : /\ stoppedAtSpawn[t]
                        /\ tpc[t] = "stopped"
                        /\ drove[t]
                        /\ gets[t] = 2
                        /\ \A u \in Tasks \ {t} : tpc[u] = "unspawned"

----------------------------------------------------------------------------
\* Dht11Sensor, continued

\* the order of the start signal and the handshake
StartOrder ==
    <<"low", "hold", "high", "input", "sample", "waitResponse", "waitRespLow", "waitReady">>

InTrace(e) == \E i \in 1..Len(trace) : trace[i] = e

\* C14: read_async returns what the exchange run by the worker produced, the
\* same Reading or the same Timeout, DataValidation or line error that read
\* returns for it; when the join fails (the worker panicked or never ran) it
\* returns the generic SensorError, never a Timeout, DataValidation or Reading.
C14_AsyncSameAsRead ==
    ret.call = "read_async" =>
        /\ (dpc = "done" /\ result.kind # "Panic") => ret.value = SyncReturn(result).value
        /\ (dpc # "done" \/ result.kind = "Panic") =>
              (ret.value.kind = "SensorError" /\ ret.value.msg = "Task join error")
        /\ ret.value.kind \in {"Ok", "Timeout", "DataValidation", "GpioError"}
              => ret.value = result

\* C14 witness: read_async returned the Reading of the worker's exchange
C14_Witness ==
    /\ ret.call = "read_async"
    /\ ret.value = OkReading(28, 50)
    /\ result = ret.value

\* C16: the bytes start at zero and hold exactly the bits decoded so far, at
\* most 40, in arrival order: the k-th bit (from 0) is bit 7 - (k mod 8) of
\* byte k div 8, every later position is 0, and the bytes handed to the
\* checksum test hold 40 bits.
C16_MsbFirstPacking ==
    /\ Len(bits) <= 40
    /\ Len(bits) = NumDecoded
    /\ \A k \in 0..39 : DataBit(data, k) = IF k < Len(bits) THEN bits[k + 1] ELSE 0
    /\ \A i \in 1..5 : data[i] \in 0..255
    /\ (dpc = "verify" \/ Verified) => Len(bits) = 40

\* C16 witness: all 40 bits of the frame 200, 55, 1, 3, 3 were packed
C16_Witness ==
    /\ dpc = "verify"
    /\ Len(bits) = 40
    /\ data = <<200, 55, 1, 3, 3>>

\* C17: the steps come in the order low, hold, high, input, first sample,
\* then the three handshake waits; the line is low in output mode during the
\* hold, which lasts at least 18 ms; the line is sampled only in input mode
\* after it was driven high; and no data bit is read before the three
\* handshake waits are complete.
C17_StartSignalOrder ==
    /\ Len(trace) <= Len(StartOrder)
    /\ \A i \in 1..Len(trace) : trace[i] = StartOrder[i]
    /\ dpc \in {"sleep", "writeHigh"} => (pinMode = "Output" /\ pinOut = "Low")
    /\ InTrace("high") => lowHeld >= 18000
    /\ InTrace("sample") => (pinMode = "Input" /\ pinOut = "High")
    /\ (Len(bits) > 0 \/ dpc \in {"bitLow", "bitHigh", "verify"})
          => Len(trace) = Len(StartOrder)

\* C17 witness: the first data bit was read after the whole start signal and
\* handshake, the low level having been held for the 20 ms of the sleep
C17_Witness ==
    /\ Len(bits) = 1
    /\ trace = StartOrder
    /\ lowHeld = 20000

\* C20: a Timeout carries the message of the wait loop whose deadline test
\* fired, and no other wait loop has that message.
C20_DistinctTimeoutMessages ==
    /\ result.kind = "Timeout" =>
         /\ failedPhase \in WaitPhases
         /\ result.msg = TimeoutMsg(failedPhase)
         /\ \A q \in WaitPhases \ {failedPhase} : TimeoutMsg(q) # result.msg
    /\ result.kind # "Timeout" => failedPhase = ""

\* C20 witness: the deadline fired in the high-level wait of a data bit
C20_Witness ==
    /\ result.kind = "Timeout"
    /\ failedPhase = "bitHigh"
    /\ Len(bits) > 0

\* the ways read can end according to its signature
ReadEndings == {"Ok", "Timeout", "DataValidation", "GpioError"}

\* C22: every read that has begun reaches its end; it ends in exactly one of
\* a Reading, a Timeout, a DataValidation error or a line-acquisition error,
\* which is what the caller of read gets; and a wait loop whose body runs
\* after the deadline returns the Timeout at once, so that no loop is still
\* iterating with the deadline passed.
C22_ReadTerminatesInOneOfFour ==
    /\ (dpc # "idle") ~> (dpc = "done")
    /\ [](dpc = "done" => result.kind \in ReadEndings)
    /\ [](ret.call = "read" => ret.value.kind \in ReadEndings)
    /\ []((dpc \in WaitPhases /\ still) => now <= timeout)
    /\ [][(dpc \in WaitPhases /\ still' /\ now' > timeout)
            => (dpc' = "done" /\ result'.kind = "Timeout")]_vars

====
